---- MODULE Spec2Model ----
(***************************************************************************)
(* Verification model of the streaming-gateway core of ccctrl/sockets:     *)
(* the GatewayRatelimiter (rate_limiter.py), the outbound send paths and   *)
(* the frame routing of the Binance and BitMEX gateways, the waiter        *)
(* registry and the receive loop of _BaseWebSocket (base_gateway.py), the  *)
(* supervisor loop of _BaseClient (client.py) and the KeepAliveHandler     *)
(* thread (keep_alive.py).                                                 *)
(* Time is an integer clock; time.time() and time.perf_counter() read it.  *)
(***************************************************************************)
EXTENDS Integers, Sequences, FiniteSets, TLC

\* ---------------------------------------------------------------- bounds
MaxCount == 2
MaxPer == 2
MaxTime == 5
MaxWire == 2
MaxWaiters == 2
MaxSessions == 2
MaxFrames == 2
MaxAttempts == 2
MaxCloses == 2
MaxBeats == 2

\* two coroutines that call send() concurrently
Senders == {1, 2}
Exchanges == {"binance", "bitmex"}

\* the waiter registry: event kinds, payloads of inbound frames, and the
\* kinds of callable a caller can hand to wait_for
WaiterIds == 1..MaxWaiters
Events == {"TICKER_UPDATE", "TRADE_UPDATE"}
Payloads == {1, 2}
Predicates == {"always", "first", "raises"}
Results == {"none", "transform", "raises"}

VARIABLES
    \* GatewayRatelimiter fields (rate_limiter.py:10-15)
    max, per, remaining, window, lockHolder, lockQueue,
    \* the clock read by time.time()
    clock,
    \* observation of get_delay() calls: the last call; the instant at which
    \* the current window began (the call that found the bucket full); and the
    \* numbers of zero-delay and non-zero-delay results inside that window
    lastCall, winStart, zeroCnt, nonzeroCnt,
    \* the session: which gateway class it is, the coroutines inside send(),
    \* and the frames written to the socket
    exchange, pc, wakeAt, wire, sendError,
    \* observation of send(): the callers that have run get_delay() inside
    \* block() and whose frame is not written yet, in that order; whether a
    \* frame was written by a caller that was not the first of them; and the
    \* number of send() frames written within `per` of the frame at burst.start,
    \* forgotten once `per` has passed since that frame
    granted, misordered, burst,
    \* _BaseWebSocket._dispatch_listeners and the futures handed out by
    \* wait_for; nsets counts the set_result/set_exception calls made on each
    \* future; last describes the last run of _remove_dispatched_listeners
    \* (its arguments, the number of entries it deleted, the exception that
    \* left it) as long as no waiter has been registered since
    listeners, fut, nsets, nextId, last,
    \* _BaseClient.connect (client.py:172-254): where the supervisor loop is,
    \* its reconnect argument, _BaseClient._closed, the number of sessions
    \* from_client has returned, the number of backoff.delay() calls, whether
    \* a backoff sleep has ended since the last session ended, and the
    \* exception that left connect()
    sup, reconnect, closed, sessions, attempt, waited, connExc,
    \* the session held in client.ws: its KeepAliveHandler, _close_code,
    \* socket.closed and socket.close_code
    ws,
    \* the receive loop of that session: frames handed to received_message,
    \* KeepAliveHandler.tick() calls, the last frame and how it was routed,
    \* the items the routed frames carried for a registered handler and the
    \* items the handlers were called with, and how poll_event last raised
    recvCount, tickCount, lastFrame, routed, expected, delivered, ended,
    \* _BaseClient.close: the calls begun, the calls suspended in
    \* 'await self.http.close()', and the number of http.close() calls made
    closeCalls, closing, httpCloses,
    \* the markets subscribed so far, by the application or by a handshake
    held,
    \* observation of is_ratelimited(): the result of the last call and
    \* whether get_delay() would have returned a non-zero delay at that instant
    query,
    \* KeepAliveHandler (keep_alive.py) and the session it watches: where the
    \* handler's thread is in run() (pc), the instant its wait began, _stop_ev,
    \* _last_recv, _last_send, the coroutine it has handed to the event loop
    \* and the outcome of that coroutine; whether close() has been called on
    \* the session, the heartbeats written to its socket, the heartbeat after
    \* whose send _last_send was last assigned, the acknowledgements handled;
    \* and two observations: a heartbeat was written after close() had been
    \* called, and the last ack() call (which heartbeat it was for, which
    \* heartbeat _last_send belonged to, the latency it computed)
    ka

limiterVars == <<max, per, remaining, window, lockHolder, lockQueue, clock, lastCall, winStart, zeroCnt, nonzeroCnt>>
sessionVars == <<exchange, pc, wakeAt, wire, sendError, granted, misordered, burst>>
waiterVars == <<listeners, fut, nsets, nextId, last>>
recvVars == <<recvCount, tickCount, lastFrame, routed, expected, delivered>>
closeVars == <<closeCalls, closing, httpCloses>>
clientVars == <<sup, reconnect, closed, sessions, attempt, waited, connExc, ws, ended, held,
                recvVars, closeVars>>

NoBurst == [start |-> 0, cnt |-> 0]
NoCall == [valid |-> FALSE, at |-> 0, delay |-> 0, remBefore |-> 0, winBefore |-> 0]

\* ------------------------------------------------ GatewayRatelimiter

\* get_delay without the exhaustion test: a token is taken on every call.
get_delay_no_exhaustion_test(rem, win, cur) ==
    LET r1 == IF cur > win + per THEN max ELSE rem
        w1 == IF r1 = max THEN cur ELSE win
    IN  [remaining |-> r1 - 1, window |-> w1, delay |-> 0]

\* get_delay that never refills the bucket.
get_delay_no_refill(rem, win, cur) ==
    LET w1 == IF rem = max THEN cur ELSE win
    IN  IF rem = 0
        THEN [remaining |-> rem, window |-> w1, delay |-> per - (cur - w1)]
        ELSE [remaining |-> rem - 1,
              window |-> IF rem - 1 = 0 THEN cur ELSE w1,
              delay |-> 0]

\* get_delay that reports the whole window length as the delay.
get_delay_full_window(rem, win, cur) ==
    LET r1 == IF cur > win + per THEN max ELSE rem
        w1 == IF r1 = max THEN cur ELSE win
    IN  IF r1 = 0
        THEN [remaining |-> r1, window |-> w1, delay |-> per]
        ELSE [remaining |-> r1 - 1,
              window |-> IF r1 - 1 = 0 THEN cur ELSE w1,
              delay |-> 0]

\* get_delay that refills the bucket on every call.
get_delay_always_refill(rem, win, cur) ==
    [remaining |-> max - 1, window |-> cur, delay |-> 0]

\* GatewayRatelimiter.get_delay: the fields after the call and the returned
\* delay, for a call made at clock value cur.
get_delay(rem, win, cur) ==
    LET r1 == IF cur > win + per THEN max ELSE rem
        w1 == IF r1 = max THEN cur ELSE win
    IN  IF r1 = 0
        THEN [remaining |-> r1, window |-> w1, delay |-> per - (cur - w1)]
        ELSE [remaining |-> r1 - 1,
              window |-> IF r1 - 1 = 0 THEN cur ELSE w1,
              delay |-> 0]

\* TRUE when a call at cur finds the bucket full (after the refill test), i.e.
\* the call starts a window (rate_limiter.py:26-30).
StartsWindow(rem, cur) ==
    (IF cur > window + per THEN max ELSE rem) = max

\* the counters of results stop at capacity + 1
Saturate(n) == IF n > max + 1 THEN max + 1 ELSE n

\* The effect of one get_delay() call on the limiter and on its observation.
ApplyGetDelay ==
    LET r == get_delay(remaining, window, clock)
        fresh == StartsWindow(remaining, clock)
        start == IF fresh THEN clock ELSE winStart
        inside == clock < start + per
        z == IF r.delay = 0 /\ inside THEN 1 ELSE 0
        n == IF r.delay # 0 /\ inside THEN 1 ELSE 0
    IN  /\ remaining' = r.remaining
        /\ window' = r.window
        /\ lastCall' = [valid |-> TRUE, at |-> clock, delay |-> r.delay,
                        remBefore |-> remaining, winBefore |-> window]
        /\ winStart' = start
        /\ zeroCnt' = Saturate((IF fresh THEN 0 ELSE zeroCnt) + z)
        /\ nonzeroCnt' = Saturate((IF fresh THEN 0 ELSE nonzeroCnt) + n)

\* A direct call of get_delay().
GetDelayCall ==
    /\ UNCHANGED <<waiterVars, clientVars, query, ka>>
    /\ ApplyGetDelay
    /\ UNCHANGED <<max, per, lockHolder, lockQueue, clock>>
    /\ UNCHANGED sessionVars

\* time passes
Tick ==
    /\ UNCHANGED <<waiterVars, clientVars, query, ka>>
    /\ clock < MaxTime
    /\ clock' = clock + 1
    /\ burst' = IF burst.cnt > 0 /\ clock' >= burst.start + per THEN NoBurst ELSE burst
    /\ UNCHANGED <<max, per, remaining, window, lockHolder, lockQueue, lastCall, winStart, zeroCnt, nonzeroCnt>>
    /\ UNCHANGED <<exchange, pc, wakeAt, wire, sendError, granted, misordered>>

NoQuery == [valid |-> FALSE, result |-> FALSE, delayed |-> FALSE]

\* GatewayRatelimiter.is_ratelimited, called at clock value cur
is_ratelimited(rem, win, cur) ==
    IF cur > win + per THEN FALSE ELSE rem = 0

\* A call of is_ratelimited(), as _BaseClient.is_ws_ratelimited makes it; it
\* assigns no field.
IsRatelimitedCall ==
    /\ query' = [valid |-> TRUE,
                 result |-> is_ratelimited(remaining, window, clock),
                 delayed |-> get_delay(remaining, window, clock).delay # 0]
    /\ UNCHANGED limiterVars
    /\ UNCHANGED <<sessionVars, waiterVars, clientVars, ka>>

\* ------------------------------------------------ outbound frames

Frame(src, method, limited) == [src |-> src, method |-> method, limited |-> limited]

\* send() writes its frame: socket.send_str(data), by caller s, when the
\* callers in g have passed get_delay() and not written yet.
WriteFrame(s, g) ==
    /\ wire' = Append(wire, Frame("send", "data", TRUE))
    /\ granted' = SelectSeq(g, LAMBDA x : x # s)
    /\ misordered' = (misordered \/ g = <<>> \/ Head(g) # s)
    /\ burst' = IF burst.cnt = 0
                THEN [start |-> clock, cnt |-> 1]
                ELSE [burst EXCEPT !.cnt = Saturate(burst.cnt + 1)]

\* block() that gives the lock back before it sleeps
BlockBody_sleeps_without_lock(s) ==
    LET r == get_delay(remaining, window, clock)
    IN  /\ ApplyGetDelay
        /\ IF r.delay # 0
           THEN /\ lockHolder' = 0
                /\ pc' = [pc EXCEPT ![s] = "sleep"]
                /\ wakeAt' = [wakeAt EXCEPT ![s] = clock + r.delay]
                /\ granted' = Append(granted, s)
                /\ UNCHANGED <<wire, misordered, burst>>
           ELSE /\ lockHolder' = 0
                /\ pc' = [pc EXCEPT ![s] = "idle"]
                /\ wakeAt' = wakeAt
                /\ WriteFrame(s, Append(granted, s))

\* The body of block() once the lock is held, followed by the rest of send():
\* with no delay the lock is released and the frame written in the same
\* step; with a delay the coroutine sleeps holding the lock.
BlockBody(s) ==
    LET r == get_delay(remaining, window, clock)
    IN  /\ ApplyGetDelay
        /\ IF r.delay # 0
           THEN /\ lockHolder' = s
                /\ pc' = [pc EXCEPT ![s] = "sleep"]
                /\ wakeAt' = [wakeAt EXCEPT ![s] = clock + r.delay]
                /\ granted' = Append(granted, s)
                /\ UNCHANGED <<wire, misordered, burst>>
           ELSE /\ lockHolder' = 0
                /\ pc' = [pc EXCEPT ![s] = "idle"]
                /\ wakeAt' = wakeAt
                /\ WriteFrame(s, Append(granted, s))

\* _BaseWebSocket.send on a session that has a rate limiter: enter block().
Send(s) ==
    /\ UNCHANGED <<waiterVars, clientVars, query, ka>>
    /\ exchange = "binance"
    /\ pc[s] = "idle"
    /\ Len(wire) < MaxWire
    /\ IF lockHolder = 0 /\ lockQueue = <<>>
       THEN /\ BlockBody(s)
            /\ UNCHANGED lockQueue
       ELSE /\ lockQueue' = Append(lockQueue, s)
            /\ pc' = [pc EXCEPT ![s] = "lock"]
            /\ UNCHANGED <<remaining, window, lockHolder, lastCall, winStart, zeroCnt, nonzeroCnt, wakeAt, wire>>
            /\ UNCHANGED <<granted, misordered, burst>>
    /\ UNCHANGED <<max, per, clock, exchange, sendError>>

\* The lock is handed to the first waiting coroutine.
LockGranted(s) ==
    /\ UNCHANGED <<waiterVars, clientVars, query, ka>>
    /\ pc[s] = "lock"
    /\ lockHolder = 0
    /\ lockQueue # <<>>
    /\ Head(lockQueue) = s
    /\ lockQueue' = Tail(lockQueue)
    /\ BlockBody(s)
    /\ UNCHANGED <<max, per, clock, exchange, sendError>>

\* sleep(delta) is over: block() releases the lock and returns, send() writes.
Wake(s) ==
    /\ UNCHANGED <<waiterVars, clientVars, query, ka>>
    /\ pc[s] = "sleep"
    /\ clock >= wakeAt[s]
    /\ lockHolder' = 0
    /\ pc' = [pc EXCEPT ![s] = "idle"]
    /\ WriteFrame(s, granted)
    /\ UNCHANGED <<max, per, remaining, window, lockQueue, clock, lastCall, winStart, zeroCnt, nonzeroCnt>>
    /\ wakeAt' = [wakeAt EXCEPT ![s] = 0]
    /\ UNCHANGED <<exchange, sendError>>

\* _BaseWebSocket.send on the BitMEX gateway: its constructor stores the
\* limiter in _rate_limiter, rate_limiter stays None and block() is never
\* reached; nothing is written.
SendNoLimiter ==
    /\ UNCHANGED <<waiterVars, clientVars, query, ka>>
    /\ exchange = "bitmex"
    /\ sendError' = TRUE
    /\ UNCHANGED limiterVars
    /\ UNCHANGED <<exchange, pc, wakeAt, wire, granted, misordered, burst>>

\* WebSocket.subscribe of either gateway: socket.send_json(payload).
Subscribe ==
    /\ UNCHANGED <<waiterVars, clientVars, query, ka>>
    /\ Len(wire) < MaxWire
    /\ wire' = Append(wire, Frame("subscribe",
                 IF exchange = "binance" THEN "SUBSCRIBE" ELSE "subscribe", FALSE))
    /\ UNCHANGED limiterVars
    /\ UNCHANGED <<exchange, pc, wakeAt, sendError, granted, misordered, burst>>

\* WebSocket.unsubscribe of either gateway: socket.send_json(payload); the
\* payload carries the SUBSCRIBE method / the 'subscribe' op.
Unsubscribe ==
    /\ UNCHANGED <<waiterVars, clientVars, query, ka>>
    /\ Len(wire) < MaxWire
    /\ wire' = Append(wire, Frame("unsubscribe",
                 IF exchange = "binance" THEN "SUBSCRIBE" ELSE "subscribe", FALSE))
    /\ UNCHANGED limiterVars
    /\ UNCHANGED <<exchange, pc, wakeAt, sendError, granted, misordered, burst>>

\* ------------------------------------------------ waiter registry

NoFuture == [state |-> "unset", value |-> 0]
NoDispatch == [valid |-> FALSE, event |-> "", data |-> 0, removed |-> 0, error |-> "none"]

\* the ids of the waiters in a registry
Ids(reg) == {reg[i].id : i \in 1..Len(reg)}

\* _BaseWebSocket.wait_for: create a future, append the entry.
WaitFor(event, predicate, result) ==
    /\ nextId <= MaxWaiters
    /\ listeners' = Append(listeners,
          [id |-> nextId, event |-> event, predicate |-> predicate, result |-> result])
    /\ fut' = [fut EXCEPT ![nextId] = [state |-> "pending", value |-> 0]]
    /\ nextId' = nextId + 1
    /\ last' = NoDispatch
    /\ UNCHANGED nsets
    /\ UNCHANGED limiterVars
    /\ UNCHANGED <<sessionVars, clientVars, query, ka>>

\* The caller abandons a waiter: cancel() on the future wait_for returned.
\* A future that is already done is not changed by cancel().
Cancel(id) ==
    /\ fut[id].state = "pending"
    /\ fut' = [fut EXCEPT ![id] = [state |-> "cancelled", value |-> 0]]
    /\ UNCHANGED <<listeners, nsets, nextId, last>>
    /\ UNCHANGED limiterVars
    /\ UNCHANGED <<sessionVars, clientVars, query, ka>>

\* entry.predicate(data)
Valid(predicate, data) ==
    CASE predicate = "always" -> TRUE
      [] predicate = "first" -> data = 1
      [] OTHER -> FALSE

\* entry.result(data)
Transform(data) == data + 10

\* the value handed to set_result
Ret(result, data) == IF result = "none" THEN data ELSE Transform(data)

CountSet(n) == IF n >= 2 THEN 2 ELSE n + 1

\* future.set_result(ret) / future.set_exception(exc) on the entry at index
\* i: a pending future is completed and the index marked for removal; a
\* future that is already done raises InvalidStateError.
SetFuture(st, id, i, state, value) ==
    IF st.fut[id].state = "pending"
    THEN [st EXCEPT !.fut[id] = [state |-> state, value |-> value],
                    !.nsets[id] = CountSet(@),
                    !.removed = Append(@, i)]
    ELSE [st EXCEPT !.nsets[id] = CountSet(@),
                    !.error = "InvalidStateError"]

\* The loop of _remove_dispatched_listeners from index i on; it stops when
\* an exception leaves the loop body.
RECURSIVE Scan(_, _, _, _)
Scan(i, event, data, st) ==
    IF i > Len(listeners) \/ st.error # "none" THEN st
    ELSE LET entry == listeners[i]
             id == entry.id
         IN  IF entry.event # event THEN Scan(i + 1, event, data, st)
             ELSE IF st.fut[id].state = "cancelled"
                  THEN Scan(i + 1, event, data, [st EXCEPT !.removed = Append(@, i)])
             ELSE IF entry.predicate = "raises"
                  THEN Scan(i + 1, event, data, SetFuture(st, id, i, "exception", 0))
             ELSE IF Valid(entry.predicate, data)
                  THEN IF entry.result = "raises"
                       THEN [st EXCEPT !.error = "transform"]
                       ELSE Scan(i + 1, event, data,
                                 SetFuture(st, id, i, "result", Ret(entry.result, data)))
             ELSE Scan(i + 1, event, data, st)

\* del seq[i], for a 1-based index
DeleteAt(seq, i) == SubSeq(seq, 1, i - 1) \o SubSeq(seq, i + 1, Len(seq))

\* a deletion pass that is off by one in the index it deletes
RECURSIVE DeleteShifted(_, _)
DeleteShifted(seq, removed) ==
    IF removed = <<>> THEN seq
    ELSE LET i == removed[Len(removed)] + 1
         IN  DeleteShifted(IF i <= Len(seq) THEN DeleteAt(seq, i) ELSE seq,
                           SubSeq(removed, 1, Len(removed) - 1))

\* for index in reversed(removed): del self._dispatch_listeners[index]
RECURSIVE DeleteReversed(_, _)
DeleteReversed(seq, removed) ==
    IF removed = <<>> THEN seq
    ELSE DeleteReversed(DeleteAt(seq, removed[Len(removed)]),
                        SubSeq(removed, 1, Len(removed) - 1))

\* _remove_dispatched_listeners(event, data), as received_message calls it
\* for a decoded frame. When an exception leaves the loop the deletion pass
\* is not reached.
Dispatch(event, data) ==
    LET st == Scan(1, event, data,
                   [fut |-> fut, nsets |-> nsets, removed |-> <<>>, error |-> "none"])
        after == IF st.error = "none" THEN DeleteReversed(listeners, st.removed)
                 ELSE listeners
    IN  /\ listeners' = after
        /\ fut' = st.fut
        /\ nsets' = st.nsets
        /\ last' = [valid |-> TRUE, event |-> event, data |-> data,
                    removed |-> Len(listeners) - Len(after),
                    error |-> st.error]
        /\ UNCHANGED nextId
        /\ UNCHANGED limiterVars
        /\ UNCHANGED <<sessionVars, clientVars, query, ka>>

\* ------------------------------------------------ inbound frames
\* Binance stream topics, as the characters of the text after '@'
Depth == <<"d", "e", "p", "t", "h">>
Ticker == <<"t", "i", "c", "k", "e", "r">>
Trade == <<"t", "r", "a", "d", "e">>
Kline == <<"k", "l", "i", "n", "e">>
Kline1m == Kline \o <<"_", "1", "m">>
Kline15m == Kline \o <<"_", "1", "5", "m">>
AggTrade == <<"a", "g", "g", "T", "r", "a", "d", "e">>
Topics == {Depth, Ticker, Trade, Kline1m, Kline15m, AggTrade}

\* the data bodies a frame carries: one item, or two items in frame order
Bodies == {<<1>>, <<1, 2>>}

NoFrame == [kind |-> "none", topic |-> <<>>, table |-> "", action |-> "", data |-> <<>>]

\* What the peer can send to a Binance session: bytes that are no JSON, a
\* pong (its body is empty, so no JSON either), an object with 'results',
\* an object with neither 'results' nor 'stream', and a stream update.
BinanceFrames ==
    {[NoFrame EXCEPT !.kind = k] : k \in {"garbage", "pong", "results", "nostream"}}
    \cup {[NoFrame EXCEPT !.kind = "stream", !.topic = t, !.data = <<d>>] : t \in Topics, d \in Payloads}

\* What the peer can send to a BitMEX session: [op, shard, session, payload]
\* with op UNSUBSCRIBE, with op MESSAGE and a 'success' payload, or with a
\* table payload; and the two undecodable kinds.
BitmexFrames ==
    {[NoFrame EXCEPT !.kind = k] : k \in {"garbage", "pong", "unsubscribed", "success"}}
    \cup {[NoFrame EXCEPT !.kind = "table", !.table = t, !.action = "update", !.data = d] :
            t \in {"ticker", "trade"}, d \in Bodies}

Frames(ex) == IF ex = "binance" THEN BinanceFrames ELSE BitmexFrames

\* ConnectionState.parsers: one entry per parse_* method, upper-cased
Parsers == {"READY", "RESUMED", "KLINE_UPDATE", "DEPTH_UPDATE", "TICKER_UPDATE"}

\* 'sub in s' on strings
Contains(s, sub) == \E i \in 1..(Len(s) - Len(sub) + 1) : SubSeq(s, i, i + Len(sub) - 1) = sub

\* topic if 'kline' not in topic else topic[:-3]
StripInterval(topic) == IF Contains(topic, Kline) THEN SubSeq(topic, 1, Len(topic) - 3) ELSE topic

\* EventType(topic).name; a value that is no member raises ValueError
EventType(topic) ==
    CASE topic = Depth -> "DEPTH_UPDATE"
      [] topic = Kline -> "KLINE_UPDATE"
      [] topic = Ticker -> "TICKER_UPDATE"
      [] topic = Trade -> "TRADE_UPDATE"
      [] OTHER -> "ValueError"

\* str.upper() on the table and action names in use
Upper(s) ==
    CASE s = "ticker" -> "TICKER"
      [] s = "trade" -> "TRADE"
      [] s = "update" -> "UPDATE"
      [] OTHER -> s

RECURSIVE Reverse(_)
Reverse(seq) == IF seq = <<>> THEN <<>> ELSE Reverse(Tail(seq)) \o <<Head(seq)>>

\* The outcome of one received_message call: the exception that left it, whether
\* tick() was called, the event name, the items the handler was called with
\* (in call order), whether the handler lookup succeeded, and whether and with
\* which data _remove_dispatched_listeners was called.
NoRoute == [exc |-> "none", ticked |-> FALSE, event |-> "", found |-> FALSE,
            handled |-> <<>>, dispatched |-> FALSE, data |-> <<>>]

\* 'if self._keep_alive': the attribute refers to a KeepAliveHandler
HasKeepAlive(w) == w.monitor = "created"

\* binance/gateway.py received_message
BinanceReceived(f, w) ==
    IF f.kind \in {"garbage", "pong"} THEN [NoRoute EXCEPT !.exc = "JSONDecodeError"]
    ELSE IF f.kind = "results" THEN NoRoute
    ELSE IF f.kind = "nostream" THEN [NoRoute EXCEPT !.exc = "KeyError", !.ticked = HasKeepAlive(w)]
    ELSE LET event == EventType(StripInterval(f.topic)) IN
         IF event = "ValueError"
         THEN [NoRoute EXCEPT !.exc = "ValueError", !.ticked = HasKeepAlive(w)]
         ELSE [NoRoute EXCEPT !.ticked = HasKeepAlive(w), !.event = event,
                              !.found = event \in Parsers,
                              !.handled = IF event \in Parsers THEN f.data ELSE <<>>,
                              !.dispatched = TRUE, !.data = f.data]

\* bitmex/gateway.py received_message
BitmexReceived(f, w) ==
    IF f.kind \in {"garbage", "pong"} THEN [NoRoute EXCEPT !.exc = "JSONDecodeError"]
    ELSE IF f.kind \in {"unsubscribed", "success"} THEN [NoRoute EXCEPT !.ticked = HasKeepAlive(w)]
    ELSE LET event == Upper(f.table) \o "_" \o Upper(f.action) IN
         [NoRoute EXCEPT !.ticked = HasKeepAlive(w), !.event = event,
                         !.found = event \in Parsers,
                         !.handled = IF event \in Parsers THEN Reverse(f.data) ELSE <<>>,
                         !.dispatched = TRUE,
                         !.data = IF event \in Parsers THEN <<>> ELSE f.data]

Received(ex, f, w) == IF ex = "binance" THEN BinanceReceived(f, w) ELSE BitmexReceived(f, w)

\* ------------------------------------------------ the session and its closure
\* close codes a peer sends; 0 stands for no code (close_code is None)
CloseCodes == {0, 1000, 1008, 4000, 4004, 4012}

\* the codes _can_handle_close refuses
NonResumable == {1000, 4004, 4010, 4011, 4012, 4013, 4014}

\* the markets an application subscribes to
Markets == {"btcusdt", "xbtusdt"}

\* client.ws before the first from_client returns
NoWebSocket ==
    [exists |-> FALSE, id |-> 0, monitor |-> "none", closeCode |-> 0, sockClosed |-> FALSE,
     peerCode |-> 0, closes |-> 0, subs |-> {}, leaks |-> 0]

NoEnd == [cause |-> "none", code |-> 0, exc |-> "none", session |-> 0]

\* what the gateway's connect() subscribes to during the handshake: the base
\* class nothing, the BitMEX class 'xbtusdt'
HandshakeSubs(ex) == IF ex = "binance" THEN {} ELSE {"xbtusdt"}

\* The session object as the gateway class's __init__ and connect() leave it,
\* assigned to client.ws in place of the object old.  The Binance
\* class assigns a KeepAliveHandler to _keep_alive (binance/gateway.py:42) and
\* nothing in the sources calls the handler's start(), so its thread never
\* runs; the BitMEX class leaves _keep_alive at None.  KeepAliveHandler.__init__
\* reads ws._max_heartbeat_timeout (keep_alive.py:34), a name _BaseWebSocket
\* does not define; the session is taken here with the handler in place, which
\* gives the receive loop more behaviours to examine, not fewer.
\* id numbers the objects; closes counts the socket.close() calls; leaks counts
\* the sockets of earlier objects that were still open when client.ws was
\* overwritten.
NewWebSocket(ex, old) ==
    [exists |-> TRUE, id |-> old.id + 1,
     monitor |-> IF ex = "binance" THEN "created" ELSE "none",
     closeCode |-> 0, sockClosed |-> FALSE, peerCode |-> 0, closes |-> 0,
     subs |-> HandshakeSubs(ex),
     leaks |-> old.leaks + (IF old.exists /\ ~old.sockClosed THEN 1 ELSE 0)]

\* 'if self._keep_alive: self._keep_alive.stop(); self._keep_alive = None'
StopKeepAlive(w) == IF HasKeepAlive(w) THEN [w EXCEPT !.monitor = "stopped"] ELSE w

\* _BaseWebSocket.close(code)
ws_close(w, code) ==
    [StopKeepAlive(w) EXCEPT !.closeCode = code, !.sockClosed = TRUE, !.closes = w.closes + 1]

\* self._close_code or self.socket.close_code
EffectiveCode(w) == IF w.closeCode # 0 THEN w.closeCode ELSE w.peerCode

can_handle_close_absent_is_fatal(w) == EffectiveCode(w) # 0 /\ EffectiveCode(w) \notin NonResumable

\* _BaseWebSocket._can_handle_close
can_handle_close(w) == EffectiveCode(w) \notin NonResumable

\* the end of _BaseClient.close, after http.close(): 'if self.ws is not None
\* and self.ws.open: await self.ws.close(code=1000)'
client_close(w) == IF w.exists /\ ~w.sockClosed THEN ws_close(w, 1000) ELSE w

Caught_with_ConnectionClosed(exc) ==
    exc \in {"OSError", "ConnectionResetError", "HTTPException", "GatewayNotFound",
             "discord.ConnectionClosed", "ClientError", "TimeoutError", "ConnectionClosed"}

\* The second except clause of connect().  The ConnectionClosed it names is
\* discord.ConnectionClosed (client.py:11); poll_event raises
\* core.errors.ConnectionClosed (base_gateway.py:11), a class of its own.
Caught(exc) ==
    exc \in {"OSError", "ConnectionResetError", "HTTPException", "GatewayNotFound",
             "discord.ConnectionClosed", "ClientError", "TimeoutError"}

\* 'await self.close()' inside an except clause of connect()
CloseInHandler(w) ==
    /\ closed' = TRUE
    /\ ws' = IF closed THEN w ELSE client_close(w)
    /\ httpCloses' = IF closed THEN httpCloses ELSE httpCloses + 1

\* connect() whose first except clause polls the same session again
Handle_keeps_polling(exc, code, w) ==
    IF exc = "ReconnectWebSocket"
    THEN /\ sup' = "poll"
         /\ ws' = w
         /\ UNCHANGED <<closed, attempt, connExc, httpCloses>>
    ELSE /\ sup' = "raised"
         /\ connExc' = exc
         /\ ws' = w
         /\ UNCHANGED <<closed, attempt, httpCloses>>

\* The except clauses of connect(): exception exc, carrying close code `code`,
\* leaves the try block while the session is in state w.
Handle(exc, code, w) ==
    IF exc = "ReconnectWebSocket"
    THEN /\ sup' = "loop"
         /\ ws' = w
         /\ UNCHANGED <<closed, attempt, connExc, httpCloses>>
    ELSE IF ~Caught(exc)
    THEN /\ sup' = "raised"
         /\ connExc' = exc
         /\ ws' = w
         /\ UNCHANGED <<closed, attempt, httpCloses>>
    ELSE IF ~reconnect
    THEN /\ CloseInHandler(w)
         /\ IF exc = "discord.ConnectionClosed" /\ code = 1000
            THEN sup' = "returned" /\ UNCHANGED connExc
            ELSE sup' = "raised" /\ connExc' = exc
         /\ UNCHANGED attempt
    ELSE IF closed
    THEN /\ sup' = "returned"
         /\ ws' = w
         /\ UNCHANGED <<closed, attempt, connExc, httpCloses>>
    ELSE IF exc = "ConnectionResetError"
    THEN \* ws_params.update(initial=False, topic=self.ws.session_id)
         /\ IF w.exists
            THEN sup' = "loop" /\ UNCHANGED connExc
            ELSE sup' = "raised" /\ connExc' = "AttributeError"
         /\ ws' = w
         /\ UNCHANGED <<closed, attempt, httpCloses>>
    ELSE IF exc = "discord.ConnectionClosed" /\ code # 1000
    THEN /\ CloseInHandler(w)
         /\ sup' = "raised"
         /\ connExc' = exc
         /\ UNCHANGED attempt
    ELSE /\ sup' = "backoff"
         /\ attempt' = attempt + 1
         /\ ws' = w
         /\ UNCHANGED <<closed, connExc, httpCloses>>

\* the application calls connect(reconnect=r)
Connect(r) ==
    /\ sup = "idle"
    /\ sup' = "loop"
    /\ reconnect' = r
    /\ UNCHANGED <<closed, sessions, attempt, waited, connExc, ws, ended, held>>
    /\ UNCHANGED <<recvVars, closeVars>>
    /\ UNCHANGED <<limiterVars, sessionVars, waiterVars, query, ka>>

\* 'while not self.is_closed()' finds the client closed: connect() returns
LoopExit ==
    /\ sup = "loop"
    /\ closed
    /\ sup' = "returned"
    /\ UNCHANGED <<reconnect, closed, sessions, attempt, waited, connExc, ws, ended, held>>
    /\ UNCHANGED <<recvVars, closeVars>>
    /\ UNCHANGED <<limiterVars, sessionVars, waiterVars, query, ka>>

\* 'while not self.is_closed()' finds the client open: from_client is awaited
FromClientBegin ==
    /\ sup = "loop"
    /\ ~closed
    /\ sessions < MaxSessions
    /\ sup' = "connecting"
    /\ UNCHANGED <<reconnect, closed, sessions, attempt, waited, connExc, ws, ended, held>>
    /\ UNCHANGED <<recvVars, closeVars>>
    /\ UNCHANGED <<limiterVars, sessionVars, waiterVars, query, ka>>

\* from_client returns a session, which is assigned to client.ws: a new
\* connection epoch begins
FromClientOk ==
    /\ sup = "connecting"
    /\ sessions' = sessions + 1
    /\ ws' = NewWebSocket(exchange, ws)
    /\ held' = held \cup HandshakeSubs(exchange)
    /\ sup' = "poll"
    /\ recvCount' = 0
    /\ tickCount' = 0
    /\ lastFrame' = NoFrame
    /\ routed' = NoRoute
    /\ expected' = <<>>
    /\ delivered' = <<>>
    /\ UNCHANGED <<reconnect, closed, attempt, waited, connExc, ended>>
    /\ UNCHANGED closeVars
    /\ UNCHANGED <<limiterVars, sessionVars, waiterVars, query, ka>>

\* from_client fails with a transport error or wait_for times out
FromClientFails(exc) ==
    /\ sup = "connecting"
    /\ attempt < MaxAttempts
    /\ Handle(exc, 0, ws)
    /\ ended' = [cause |-> "connect", code |-> 0, exc |-> exc, session |-> 0]
    /\ waited' = FALSE
    /\ UNCHANGED <<reconnect, sessions, held, closing, closeCalls>>
    /\ UNCHANGED recvVars
    /\ UNCHANGED <<limiterVars, sessionVars, waiterVars, query, ka>>

\* 'await asyncio.sleep(retry)' ends
BackoffDone ==
    /\ sup = "backoff"
    /\ sup' = "loop"
    /\ waited' = TRUE
    /\ UNCHANGED <<reconnect, closed, sessions, attempt, connExc, ws, ended, held>>
    /\ UNCHANGED <<recvVars, closeVars>>
    /\ UNCHANGED <<limiterVars, sessionVars, waiterVars, query, ka>>

\* poll_event receives a TEXT, BINARY or PONG message and hands it to
\* received_message; an exception of received_message leaves poll_event as it is
PollFrame(f) ==
    /\ sup = "poll"
    /\ ~ws.sockClosed
    /\ recvCount < MaxFrames
    /\ LET out == Received(exchange, f, ws) IN
        /\ recvCount' = recvCount + 1
        /\ tickCount' = IF out.ticked THEN tickCount + 1 ELSE tickCount
        /\ lastFrame' = f
        /\ routed' = out
        /\ expected' = IF out.found THEN expected \o f.data ELSE expected
        /\ delivered' = delivered \o out.handled
        /\ IF out.exc = "none"
           THEN UNCHANGED <<sup, closed, attempt, connExc, ws, ended, waited, httpCloses>>
           ELSE /\ Handle(out.exc, 0, ws)
                /\ ended' = [cause |-> "frame", code |-> 0, exc |-> out.exc, session |-> ws.id]
                /\ waited' = FALSE
    /\ UNCHANGED <<reconnect, sessions, held, closing, closeCalls>>
    /\ UNCHANGED <<limiterVars, sessionVars, waiterVars, query, ka>>

\* poll_event receives CLOSE/CLOSING/CLOSED: the peer closed with code c, or
\* the socket was closed locally.  The socket was opened with autoclose off
\* (http.py:198), so a close frame of the peer does not close it.
PollClose(c) ==
    /\ sup = "poll"
    /\ IF ws.sockClosed THEN c = ws.peerCode ELSE TRUE
    /\ LET w == [StopKeepAlive(ws) EXCEPT !.peerCode = c]
           exc == IF can_handle_close(w) THEN "ReconnectWebSocket" ELSE "ConnectionClosed"
       IN  /\ Handle(exc, EffectiveCode(w), w)
           /\ ended' = [cause |-> "close", code |-> EffectiveCode(w), exc |-> exc, session |-> ws.id]
    /\ waited' = FALSE
    /\ UNCHANGED <<reconnect, sessions, held, closing, closeCalls>>
    /\ UNCHANGED recvVars
    /\ UNCHANGED <<limiterVars, sessionVars, waiterVars, query, ka>>

\* a receive loop that classifies a timeout by the recorded close code
PollTimeout_classifies_by_code ==
    /\ sup = "poll"
    /\ LET w == StopKeepAlive(ws)
           exc == IF can_handle_close(w) THEN "ReconnectWebSocket" ELSE "ConnectionClosed"
       IN  /\ Handle(exc, EffectiveCode(w), w)
           /\ ended' = [cause |-> "timeout", code |-> EffectiveCode(w),
                        exc |-> exc, session |-> ws.id]
    /\ waited' = FALSE
    /\ UNCHANGED <<reconnect, sessions, held, closing, closeCalls>>
    /\ UNCHANGED recvVars
    /\ UNCHANGED <<limiterVars, sessionVars, waiterVars, query, ka>>

\* socket.receive(timeout=max_heartbeat_timeout) times out.  The timeout can
\* also expire while a close() of the session is suspended in
\* 'await self.socket.close(code=code)' (base_gateway.py:153-154), that is
\* with _close_code already recorded.
PollTimeout ==
    /\ sup = "poll"
    /\ LET w == StopKeepAlive(ws) IN
        /\ Handle("ReconnectWebSocket", 0, w)
        /\ ended' = [cause |-> "timeout", code |-> EffectiveCode(w),
                     exc |-> "ReconnectWebSocket", session |-> ws.id]
    /\ waited' = FALSE
    /\ UNCHANGED <<reconnect, sessions, held, closing, closeCalls>>
    /\ UNCHANGED recvVars
    /\ UNCHANGED <<limiterVars, sessionVars, waiterVars, query, ka>>

\* socket.receive raises, or returns an ERROR message whose exception is raised
PollError(exc) ==
    /\ sup = "poll"
    /\ ~ws.sockClosed
    /\ Handle(exc, 0, ws)
    /\ ended' = [cause |-> "error", code |-> 0, exc |-> exc, session |-> ws.id]
    /\ waited' = FALSE
    /\ UNCHANGED <<reconnect, sessions, held, closing, closeCalls>>
    /\ UNCHANGED recvVars
    /\ UNCHANGED <<limiterVars, sessionVars, waiterVars, query, ka>>

\* the application calls subscribe(market) on the open session
SubscribeMarket(m) ==
    /\ sup = "poll"
    /\ ~ws.sockClosed
    /\ ws' = [ws EXCEPT !.subs = ws.subs \cup {m}]
    /\ held' = held \cup {m}
    /\ UNCHANGED <<sup, reconnect, closed, sessions, attempt, waited, connExc, ended>>
    /\ UNCHANGED <<recvVars, closeVars>>
    /\ UNCHANGED <<limiterVars, sessionVars, waiterVars, query, ka>>

\* The application calls _BaseClient.close() while connect() is suspended or
\* after it has ended: the call finds _closed false and awaits http.close().
CloseBegin ==
    /\ sup \notin {"idle", "loop"}
    /\ ~closed
    /\ closeCalls < MaxCloses
    /\ closeCalls' = closeCalls + 1
    /\ closing' = closing + 1
    /\ httpCloses' = httpCloses + 1
    /\ UNCHANGED <<sup, reconnect, closed, sessions, attempt, waited, connExc, ws, ended, held>>
    /\ UNCHANGED recvVars
    /\ UNCHANGED <<limiterVars, sessionVars, waiterVars, query, ka>>

\* http.close() returns to a close() call: it sets _closed and closes the
\* websocket client.ws refers to now, if that is open
CloseEnd ==
    /\ closing > 0
    /\ closing' = closing - 1
    /\ closed' = TRUE
    /\ ws' = client_close(ws)
    /\ UNCHANGED <<sup, reconnect, sessions, attempt, waited, connExc, ended, held, closeCalls, httpCloses>>
    /\ UNCHANGED recvVars
    /\ UNCHANGED <<limiterVars, sessionVars, waiterVars, query, ka>>

\* ------------------------------------------------ KeepAliveHandler
\* The handler as a unit: a thread that has been started on a session whose
\* gateway class supplies what run() uses of it (HEARTBEAT, sequence,
\* send_heartbeat) and whose router hands heartbeat acknowledgements to ack().
\* The thread runs beside the event-loop thread, which executes the
\* coroutines handed over with run_coroutine_threadsafe, close() calls on
\* the session, and the handling of inbound frames.

\* the interval and the heartbeat timeout the handler was constructed with
Interval == 1
HeartbeatTimeout == 2

NoAck == [valid |-> FALSE, beat |-> 0, recorded |-> 0, latency |-> 0]

\* the handler after __init__, with the clock at 0, on a session that is open
NewKeepAlive ==
    [pc |-> "new", waitFrom |-> 0, stopEv |-> FALSE, lastRecv |-> 0, lastSend |-> 0,
     scheduled |-> "none", fresult |-> "none",
     closeReq |-> FALSE, beats |-> 0, recorded |-> 0, acked |-> 0,
     beatAfterClose |-> FALSE, ack |-> NoAck]

KaFrame == UNCHANGED <<limiterVars, sessionVars, waiterVars, clientVars, query>>

\* the handler is started when the session is open
KaStart ==
    /\ ka.pc = "new"
    /\ ka' = [ka EXCEPT !.pc = "wait", !.waitFrom = clock]
    /\ KaFrame

\* 'while not self._stop_ev.wait(self.interval)': the interval has passed
\* and the event is not set, wait returns False
WaitExpires ==
    /\ ka.pc = "wait"
    /\ ~ka.stopEv
    /\ clock >= ka.waitFrom + Interval
    /\ ka' = [ka EXCEPT !.pc = "check"]
    /\ KaFrame

\* the event is set: wait returns True and run() ends
WaitStopped ==
    /\ ka.pc = "wait"
    /\ ka.stopEv
    /\ ka' = [ka EXCEPT !.pc = "done"]
    /\ KaFrame

\* The body of the loop up to run_coroutine_threadsafe: a stale session gets
\* ws.close(4000) scheduled, any other a heartbeat.
Beat ==
    /\ ka.pc = "check"
    /\ IF ka.lastRecv + HeartbeatTimeout < clock
       THEN ka' = [ka EXCEPT !.scheduled = "close", !.pc = "closing"]
       ELSE /\ ka.beats < MaxBeats
            /\ ka' = [ka EXCEPT !.scheduled = "heartbeat", !.pc = "sending"]
    /\ KaFrame

\* The event loop runs the send_heartbeat coroutine: the heartbeat goes
\* through send() to the socket, or the send raises.
SendHeartbeat(outcome) ==
    /\ ka.scheduled = "heartbeat"
    /\ IF outcome = "written"
       THEN ka' = [ka EXCEPT !.scheduled = "none",
                             !.beats = ka.beats + 1,
                             !.beatAfterClose = (ka.beatAfterClose \/ ka.closeReq),
                             !.fresult = "ok"]
       ELSE ka' = [ka EXCEPT !.scheduled = "none", !.fresult = "exc"]
    /\ KaFrame

\* The event loop runs the ws.close(4000) coroutine of the handler:
\* _BaseWebSocket.close stops the handler and closes the socket.
RunClose ==
    /\ ka.scheduled = "close"
    /\ ka' = [ka EXCEPT !.scheduled = "none", !.fresult = "ok",
                        !.stopEv = TRUE, !.closeReq = TRUE]
    /\ KaFrame

\* f.result() returns in the thread after a heartbeat: on success
\* _last_send is assigned, on an exception the handler stops itself; the
\* loop goes back to wait.
SendReturns ==
    /\ ka.pc = "sending"
    /\ ka.fresult # "none"
    /\ IF ka.fresult = "ok"
       THEN ka' = [ka EXCEPT !.lastSend = clock, !.recorded = ka.beats,
                             !.pc = "wait", !.waitFrom = clock, !.fresult = "none"]
       ELSE ka' = [ka EXCEPT !.stopEv = TRUE,
                             !.pc = "wait", !.waitFrom = clock, !.fresult = "none"]
    /\ KaFrame

\* f.result() returns in the thread after close(4000): stop() and return
CloseReturns ==
    /\ ka.pc = "closing"
    /\ ka.fresult # "none"
    /\ ka' = [ka EXCEPT !.stopEv = TRUE, !.pc = "returned", !.fresult = "none"]
    /\ KaFrame

\* close() is called on the session from the event-loop thread:
\* '_keep_alive.stop(); _keep_alive = None', then the socket is closed
SessionClose ==
    /\ ka.pc # "new"
    /\ ~ka.closeReq
    /\ ka' = [ka EXCEPT !.stopEv = TRUE, !.closeReq = TRUE]
    /\ KaFrame

\* received_message handles an inbound frame: 'if self._keep_alive:
\* self._keep_alive.tick()'
FrameReceived ==
    /\ ka.pc # "new"
    /\ ~ka.closeReq
    /\ ka.lastRecv # clock
    /\ ka' = [ka EXCEPT !.lastRecv = clock]
    /\ KaFrame

\* KeepAliveHandler.ack at clock value now, with _last_send = sent
ack(now, sent) == [lastAck |-> now, latency |-> now - sent]

\* The acknowledgement of the oldest unacknowledged heartbeat arrives and
\* the router hands it to ack().
AckReceived ==
    /\ ~ka.closeReq
    /\ ka.acked < ka.beats
    /\ ka' = [ka EXCEPT !.acked = ka.acked + 1,
                        !.ack = [valid |-> TRUE, beat |-> ka.acked + 1,
                                 recorded |-> ka.recorded,
                                 latency |-> ack(clock, ka.lastSend).latency]]
    /\ KaFrame

vars == <<max, per, remaining, window, lockHolder, lockQueue, clock, lastCall, winStart, zeroCnt, nonzeroCnt,
          exchange, pc, wakeAt, wire, sendError, granted, misordered, burst,
          listeners, fut, nsets, nextId, last,
          sup, reconnect, closed, sessions, attempt, waited, connExc, ws,
          recvCount, tickCount, lastFrame, routed, expected, delivered, ended,
          closeCalls, closing, httpCloses, held,
          query, ka>>

\* State after construction: GatewayRatelimiter(count, per), no frame written.
Init ==
    /\ max \in 1..MaxCount
    /\ per \in 1..MaxPer
    /\ remaining = max
    /\ window = 0
    /\ lockHolder = 0
    /\ lockQueue = <<>>
    /\ clock = 0
    /\ lastCall = NoCall
    /\ winStart = 0
    /\ zeroCnt = 0
    /\ nonzeroCnt = 0
    /\ exchange \in Exchanges
    /\ pc = [s \in Senders |-> "idle"]
    /\ wakeAt = [s \in Senders |-> 0]
    /\ wire = <<>>
    /\ sendError = FALSE
    /\ granted = <<>>
    /\ misordered = FALSE
    /\ burst = NoBurst
    /\ listeners = <<>>
    /\ fut = [id \in WaiterIds |-> NoFuture]
    /\ nsets = [id \in WaiterIds |-> 0]
    /\ nextId = 1
    /\ last = NoDispatch
    /\ sup = "idle"
    /\ reconnect = TRUE
    /\ closed = FALSE
    /\ sessions = 0
    /\ attempt = 0
    /\ waited = FALSE
    /\ connExc = "none"
    /\ ws = NoWebSocket
    /\ recvCount = 0
    /\ tickCount = 0
    /\ lastFrame = NoFrame
    /\ routed = NoRoute
    /\ expected = <<>>
    /\ delivered = <<>>
    /\ ended = NoEnd
    /\ closeCalls = 0
    /\ closing = 0
    /\ httpCloses = 0
    /\ held = {}
    /\ query = NoQuery
    /\ ka = NewKeepAlive

Next ==
    \/ GetDelayCall
    \/ Tick
    \/ \E s \in Senders : Send(s)
    \/ \E s \in Senders : LockGranted(s)
    \/ \E s \in Senders : Wake(s)
    \/ SendNoLimiter
    \/ Subscribe
    \/ Unsubscribe

Spec == Init /\ [][Next]_vars

\* the limiter on its own, with calls of is_ratelimited()
NextLimiter ==
    \/ GetDelayCall
    \/ Tick
    \/ IsRatelimitedCall

SpecLimiter == Init /\ [][NextLimiter]_vars

\* a started KeepAliveHandler beside the event loop of its session
NextKeepAlive ==
    \/ Tick
    \/ KaStart
    \/ WaitExpires
    \/ WaitStopped
    \/ Beat
    \/ \E outcome \in {"written", "error"} : SendHeartbeat(outcome)
    \/ RunClose
    \/ SendReturns
    \/ CloseReturns
    \/ SessionClose
    \/ FrameReceived
    \/ AckReceived

InitKeepAlive == Init /\ exchange = "binance" /\ max = MaxCount /\ per = 1

SpecKeepAlive == InitKeepAlive /\ [][NextKeepAlive]_vars

\* the waiter registry on its own
NextWaiters ==
    \/ \E e \in Events, p \in Predicates, r \in Results : WaitFor(e, p, r)
    \/ \E id \in WaiterIds : Cancel(id)
    \/ \E e \in Events, d \in Payloads : Dispatch(e, d)

\* a Binance session, whose limiter is GatewayRatelimiter(5, 1), with an
\* empty registry
InitWaiters == Init /\ exchange = "binance" /\ max = MaxCount /\ per = 1

SpecWaiters == InitWaiters /\ [][NextWaiters]_vars

\* the supervisor loop, its sessions and their receive loops, while the
\* application does not call close()
NextClient ==
    \/ \E r \in BOOLEAN : Connect(r)
    \/ FromClientBegin
    \/ FromClientOk
    \/ \E exc \in {"OSError", "ConnectionResetError", "TimeoutError"} : FromClientFails(exc)
    \/ BackoffDone
    \/ \E f \in Frames(exchange) : PollFrame(f)
    \/ \E c \in CloseCodes : PollClose(c)
    \/ PollTimeout
    \/ \E exc \in {"OSError", "ConnectionResetError", "ClientError"} : PollError(exc)

InitClient == Init /\ max = MaxCount /\ per = 1

SpecClient == InitClient /\ [][NextClient]_vars

\* the supervisor loop, close() and subscribe() without the content of frames
NextSupervisor ==
    \/ \E r \in BOOLEAN : Connect(r)
    \/ LoopExit
    \/ FromClientBegin
    \/ FromClientOk
    \/ \E exc \in {"OSError", "ConnectionResetError", "TimeoutError"} : FromClientFails(exc)
    \/ BackoffDone
    \/ \E c \in CloseCodes : PollClose(c)
    \/ PollTimeout
    \/ \E exc \in {"OSError", "ConnectionResetError", "ClientError"} : PollError(exc)
    \/ \E m \in Markets : SubscribeMarket(m)
    \/ CloseBegin
    \/ CloseEnd

SpecSupervisor == InitClient /\ [][NextSupervisor]_vars

\* ---------------------------------------------------------------- claims

\* TRUE when the last get_delay() call was made inside the current window,
\* i.e. less than per after the call that began it.
LastCallInWindow == lastCall.valid /\ lastCall.at < winStart + per

\* C1: after any sequence of get_delay()/block() calls at non-decreasing
\* clock values, 0 <= remaining <= max; remaining never goes negative.
C1_RemainingInRange == remaining >= 0 /\ remaining <= max

\* C1 witness: a call was made on an exhausted bucket and was refused a token.
C1_Witness ==
    /\ lastCall.valid
    /\ lastCall.remBefore = 0
    /\ lastCall.delay > 0
    /\ remaining = 0

\* C2 as stated: within one window the number of get_delay() calls that
\* return a non-zero delay never exceeds the capacity.
C2_NonZeroDelaysBounded == nonzeroCnt <= max

\* C2 amended: within one window the number of get_delay() calls that return
\* a zero delay never exceeds the capacity (the calls that return a non-zero
\* delay are not bounded).
C2_ZeroDelaysBounded == zeroCnt <= max

\* C2 witness: a window in which the whole capacity was granted and a further
\* call was delayed.
C2_Witness == zeroCnt = max /\ nonzeroCnt > 0

\* C3: of c+1 get_delay() calls inside one window, the first c return 0 and
\* the (c+1)-th returns a strictly positive delay equal to the time left
\* until the window resets.
C3_RapidCalls ==
    LastCallInWindow =>
        /\ zeroCnt + nonzeroCnt <= max => lastCall.delay = 0
        /\ zeroCnt + nonzeroCnt = max + 1 =>
              /\ lastCall.delay > 0
              /\ lastCall.delay = window + per - lastCall.at

\* C3 witness: the (c+1)-th call of a window was made inside the window, at
\* a later instant than the c-th.
C3_Witness ==
    /\ LastCallInWindow
    /\ zeroCnt = max
    /\ nonzeroCnt = 1
    /\ lastCall.at > window

\* C4: a get_delay() call made more than per after windowStart leaves
\* remaining at capacity less the token it grants, sets windowStart to the
\* time of the call and returns zero delay, whatever remaining was before.
C4_ResetAfterWindow ==
    (lastCall.valid /\ lastCall.at > lastCall.winBefore + per)
        => /\ remaining = max - 1
           /\ window = lastCall.at
           /\ lastCall.delay = 0

\* C4 witness: the call that reset the window found the bucket exhausted.
C4_Witness ==
    /\ lastCall.valid
    /\ lastCall.at > lastCall.winBefore + per
    /\ lastCall.remBefore = 0

\* C5: every frame written to the transport was preceded by block() for
\* that frame.
C5_EveryFrameLimited == \A i \in 1..Len(wire) : wire[i].limited

\* the step is a run of _remove_dispatched_listeners(e, d)
Dispatched(e, d) ==
    /\ last'.valid
    /\ last'.event = e
    /\ last'.data = d
    /\ Dispatch(e, d)

\* C6: a pending waiter whose predicate always returns true is, by the next
\* dispatch of its kind, completed exactly once with the transformed payload
\* (the raw payload when it has no transform) and removed from the registry.
C6_AlwaysTrueCompletes ==
    [][\A e \in Events, d \in Payloads :
         Dispatched(e, d) =>
           \A i \in 1..Len(listeners) :
             LET w == listeners[i]
             IN  (/\ w.event = e
                  /\ w.predicate = "always"
                  /\ w.result # "raises"
                  /\ fut[w.id].state = "pending")
                 => /\ fut'[w.id] = [state |-> "result", value |-> Ret(w.result, d)]
                    /\ nsets'[w.id] = 1
                    /\ w.id \notin Ids(listeners')]_vars

\* C7: no waiter's future is ever the target of more than one
\* set_result/set_exception.
C7_CompletedAtMostOnce == \A id \in WaiterIds : nsets[id] <= 1

\* C8: when the predicate of a pending waiter raises in a dispatch (its
\* future takes the error), the waiter is removed, no exception leaves the
\* dispatch, and every other pending waiter of that kind is still evaluated
\* in the same dispatch, so that those whose predicate holds are completed.
C8_PredicateErrorIsLocal ==
    [][\A e \in Events, d \in Payloads :
         Dispatched(e, d) =>
           \A i \in 1..Len(listeners) :
             LET w == listeners[i]
             IN  (/\ w.event = e
                  /\ w.predicate = "raises"
                  /\ fut[w.id].state = "pending"
                  /\ fut'[w.id].state = "exception")
                 => /\ w.id \notin Ids(listeners')
                    /\ last'.error = "none"
                    /\ \A j \in 1..Len(listeners) :
                         LET o == listeners[j]
                         IN  (/\ j # i
                              /\ o.event = e
                              /\ fut[o.id].state = "pending"
                              /\ Valid(o.predicate, d)
                              /\ o.result # "raises")
                             => fut'[o.id].state = "result"]_vars

C10_CancelRemoves ==
    \A id \in WaiterIds :
        fut[id].state = "cancelled" => /\ id \notin Ids(listeners)
                                       /\ nsets[id] = 0


\* C11: a session on which no inbound frame arrived within the heartbeat
\* timeout is closed by the KeepAliveHandler with the resumable code 4000 and
\* its monitor is stopped before the receive loop reports the closure, so
\* whenever the receive loop has reported a closure for lack of frames, code
\* 4000 has been recorded on the session.
C11_StaleSessionClosedByMonitor ==
    ended.cause = "timeout" => ended.code = 4000 /\ ws.monitor = "stopped"

\* C12: every frame handed to received_message by the receive loop of a
\* session has been followed by one KeepAliveHandler.tick(), whatever the
\* frame holds.
C12_EveryFrameTicks == tickCount = recvCount

\* C13: the heartbeat monitor runs while the session is open, and it is
\* stopped once the session has ended.
C13_MonitorTracksSession ==
    /\ (sup = "poll" /\ ~ws.sockClosed) => ws.monitor = "running"
    /\ (ws.exists /\ sup # "poll") => ws.monitor = "stopped"

\* C14: a frame that cannot be decoded, or that decodes to an object without
\* the stream envelope, never makes an exception leave the receive loop.
C14_MalformedFrameSkipped ==
    ~(ended.cause = "frame" /\ lastFrame.kind \in {"garbage", "nostream"})

\* C15: a well-formed stream frame never makes an exception leave the receive
\* loop, whether or not its topic is a known kind or has a handler.
C15_UnknownKindNotFatal ==
    ~(ended.cause = "frame" /\ lastFrame.kind \in {"stream", "table"})

\* C16: every frame decoded to an event is forwarded to the waiter registry,
\* with the data body the frame carried.
C16_WaitersGetHandlerPayload ==
    routed.event # "" => routed.dispatched /\ routed.data = lastFrame.data

\* C17: within one connection epoch the handlers are called with the items of
\* the routed frames in the order of the frames and, inside a frame, in the
\* order of the items.
C17_DeliveredInOrder == delivered = expected

C20_BackoffBeforeReconnect ==
    (sup = "poll" /\ ended.exc = "ReconnectWebSocket") => waited


\* C30: a get_delay() call that finds remaining = 0 and does not refill the
\* bucket on that call returns a strictly positive delay, also when exactly
\* `per` has elapsed since the start of the window.
C30_ExhaustedDelayPositive ==
    (lastCall.valid /\ lastCall.remBefore = 0 /\ ~(lastCall.at > lastCall.winBefore + per))
        => lastCall.delay > 0


\* C27: frames of concurrent send() callers are written in the order in which
\* the callers passed the token accounting of block(), and at most one caller
\* at a time is between that accounting and its write.
C27_WritesInGrantOrder ==
    /\ ~misordered
    /\ Len(granted) <= 1
    /\ (granted # <<>> => lockHolder = Head(granted))

\* a caller sleeps in block() after it was delayed, a second caller waits for
\* the lock behind it, and a frame has been written before
C27_Witness ==
    /\ \E s \in Senders : pc[s] = "sleep" /\ granted = <<s>>
    /\ \E s \in Senders : pc[s] = "lock"
    /\ \E i \in 1..Len(wire) : wire[i].src = "send"

\* C29: the frames written by send() within one window of length `per`
\* (counted from a written frame) never number more than the capacity, the
\* frames of delayed callers included.
C29_FramesPerWindow == burst.cnt <= max


\* C21: once close() has completed (the client is marked closed), connect()
\* puts no further session in place, whatever it was doing when close() was
\* called.
C21_NoSessionAfterClose == [][closed => sessions' = sessions]_vars

\* C22: however many close() calls are made, and however they overlap, the
\* HTTP session is closed at most once and the websocket at most once.
C22_CloseIdempotent == httpCloses <= 1 /\ ws.closes <= 1

\* C23: while a session is polled, the markets subscribed on it are the
\* markets subscribed so far, also on a session that replaced an earlier one.
C23_SubscriptionsReplayed == sup = "poll" => ws.subs = held

\* C24: while reconnect is requested, a connection attempt that failed with a
\* transport error or a timeout is followed by a backoff sleep before the next
\* attempt is made, and it does not make connect() raise.
C24_ConnectErrorBacksOff ==
    (reconnect /\ ended.cause = "connect") =>
        /\ sup = "connecting" => waited
        /\ sup # "raised"

\* C25: the session that is polled is the newest object, and it is not an
\* object that has already reported a closure.
C25_ClosedIsTerminal ==
    sup = "poll" => ws.id = sessions /\ ended.session # ws.id

\* the second session is polled after the first reported a closure
C25_Witness ==
    /\ sup = "poll" /\ sessions = 2 /\ ws.id = 2
    /\ ended.session = 1 /\ ended.exc = "ReconnectWebSocket"

\* C26: no socket of an earlier session is still open when the next session
\* is in place: at most one transport is open at any time.
C26_OneTransport == ws.leaks = 0


\* C31: after a dispatch of kind e the registry holds, in their order, exactly
\* the waiters that the dispatch did not mark: those of another kind and those
\* of kind e that were not cancelled, whose predicate did not raise and did
\* not hold; and no future was set more than once by that dispatch.
C31_RegistryAfterDispatch ==
    [][\A e \in Events, d \in Payloads :
         Dispatched(e, d) =>
           LET Unmarked(w) == \/ w.event # e
                              \/ /\ fut[w.id].state # "cancelled"
                                 /\ w.predicate # "raises"
                                 /\ ~Valid(w.predicate, d)
           IN  /\ listeners' = SelectSeq(listeners, Unmarked)
               /\ \A id \in WaiterIds : nsets'[id] <= nsets[id] + 1]_vars


C33_NoReconnectOneSession == ~reconnect => sessions <= 1


\* C36: every frame that unsubscribe() writes carries the unsubscribe command
\* of its gateway: method UNSUBSCRIBE on Binance, op 'unsubscribe' on BitMEX.
C36_UnsubscribeCommand ==
    \A i \in 1..Len(wire) :
        wire[i].src = "unsubscribe" => wire[i].method \in {"UNSUBSCRIBE", "unsubscribe"}

\* C37: a Binance stream frame whose topic is a kline topic, whatever the
\* length of its interval suffix, is routed as KLINE_UPDATE; a frame whose
\* topic has no interval suffix is routed under the name of its own topic.
C37_KlineCanonical ==
    lastFrame.kind = "stream" =>
        IF Len(lastFrame.topic) > Len(Kline) /\ SubSeq(lastFrame.topic, 1, Len(Kline)) = Kline
        THEN routed.event = "KLINE_UPDATE"
        ELSE routed.exc = "none" => routed.event = EventType(lastFrame.topic)


\* C38: is_ratelimited() returns true exactly when a get_delay() call made at
\* the same instant would return a non-zero delay.
C38_RatelimitedIffDelay == query.valid => (query.result = query.delayed)


\* C34: no heartbeat is written to the socket of a session after close() has
\* been called on that session.
C34_NoBeatAfterClose == ~ka.beatAfterClose

\* C35: when ack() runs for a heartbeat, _last_send is the value assigned for
\* that heartbeat.
C35_AckSeesOwnSend == ka.ack.valid => ka.ack.recorded = ka.ack.beat

====
